---- MODULE Spec2Model ----
(***************************************************************************)
(* Resume RAG analyzer: the analyze pipeline of rag_core.py                *)
(* (process_job_description -> query_job_description -> generate_analysis  *)
(* -> calculate_match_score) over the persisted Chroma collection, and the *)
(* text parsers of rag_core.py and app.py.                                 *)
(*                                                                         *)
(* A text is a sequence of one-character strings, so that trimming,        *)
(* splitting and the regular expressions of the code are computed on       *)
(* characters.                                                             *)
(***************************************************************************)
EXTENDS Integers, Sequences, FiniteSets, TLC

VARIABLES
    coll,       \* the persisted collection "job_descriptions" of ./chroma_db
    pc,         \* per call: where the call stands
    op,         \* per call: the public method that was called
    resume,     \* per call: argument resume_text
    jd,         \* per call: argument job_desc_text
    relevant,   \* per call: relevant_chunks, the result of the query
    analysis,   \* per call: the text generate_analysis returned
    fault,      \* per call: the service failure met during the call, if any
    ret,        \* per call: what the call returned or raised
    fn,         \* parser run: the function applied ("none" outside parser runs)
    arg,        \* parser run: its input text
    out         \* parser run: its output

vars == <<coll, pc, op, resume, jd, relevant, analysis, fault, ret, fn, arg, out>>
callVars == <<coll, pc, op, resume, jd, relevant, analysis, fault, ret>>
parserVars == <<fn, arg, out>>

----------------------------------------------------------------------------
(* Characters and Python's str / re primitives                             *)

\* U+2022, the bullet character of the parsers
Bullet == "bullet"

Digits == <<"0","1","2","3","4","5","6","7","8","9">>
Uppercase == <<"A","B","C","D","E","F","G","H","I","J","K","L","M",
               "N","O","P","Q","R","S","T","U","V","W","X","Y","Z">>
Lowercase == <<"a","b","c","d","e","f","g","h","i","j","k","l","m",
               "n","o","p","q","r","s","t","u","v","w","x","y","z">>

Range(s) == {s[i] : i \in 1..Len(s)}
SetMin(S) == CHOOSE x \in S : \A y \in S : x <= y
SetMax(S) == CHOOSE x \in S : \A y \in S : x >= y
max(a, b) == IF a >= b THEN a ELSE b
min(a, b) == IF a <= b THEN a ELSE b

\* \d
IsDigit(c) == c \in Range(Digits)
\* \s, and the characters str.strip() removes
SpaceChars == {" ", "\t", "\n", "\r"}
IsSpace(c) == c \in SpaceChars
\* \w
IsWord(c) == c \in Range(Uppercase) \cup Range(Lowercase) \cup Range(Digits) \cup {"_"}

DigitValue(c) == (CHOOSE i \in 1..10 : Digits[i] = c) - 1

\* int(s) of a string of digits
RECURSIVE int(_)
int(s) == IF s = <<>> THEN 0 ELSE 10 * int(SubSeq(s, 1, Len(s) - 1)) + DigitValue(s[Len(s)])

lower_char(c) ==
    IF c \in Range(Uppercase)
    THEN Lowercase[CHOOSE i \in 1..26 : Uppercase[i] = c]
    ELSE c

\* str.lower()
lower(t) == [i \in 1..Len(t) |-> lower_char(t[i])]

\* str.strip(): leading and trailing whitespace removed
strip(t) ==
    LET keep == {i \in 1..Len(t) : ~IsSpace(t[i])}
    IN  IF keep = {} THEN <<>> ELSE SubSeq(t, SetMin(keep), SetMax(keep))

\* sub in t
contains(t, sub) ==
    \E i \in 1..(Len(t) - Len(sub) + 1) : SubSeq(t, i, i + Len(sub) - 1) = sub

\* str.startswith(prefix) for a set of one-character prefixes
startswith(t, prefixes) == Len(t) > 0 /\ t[1] \in prefixes

\* str.split(sep) for a one-character separator
RECURSIVE split(_, _)
split(t, sep) ==
    LET at == {i \in 1..Len(t) : t[i] = sep}
    IN  IF at = {} THEN <<t>>
        ELSE <<SubSeq(t, 1, SetMin(at) - 1)>> \o split(SubSeq(t, SetMin(at) + 1, Len(t)), sep)

\* sep.join(parts)
RECURSIVE join(_, _)
join(parts, sep) ==
    IF parts = <<>> THEN <<>>
    ELSE IF Len(parts) = 1 THEN parts[1]
    ELSE parts[1] \o <<sep>> \o join(Tail(parts), sep)

----------------------------------------------------------------------------
(* ResumeRAGAnalyzer.clean_text                                            *)

\* re.sub(r'\s+', ' ', text): every run of whitespace becomes one space
RECURSIVE sub_whitespace_runs(_)
sub_whitespace_runs(t) ==
    IF t = <<>> THEN <<>>
    ELSE IF IsSpace(t[1])
         THEN LET rest == {i \in 1..Len(t) : ~IsSpace(t[i])}
              IN  IF rest = {} THEN <<" ">>
                  ELSE <<" ">> \o sub_whitespace_runs(SubSeq(t, SetMin(rest), Len(t)))
         ELSE <<t[1]>> \o sub_whitespace_runs(Tail(t))

\* the class [\w\s.,!?;:()-] of the characters that are kept
IsKept(c) == IsWord(c) \/ IsSpace(c) \/ c \in {".", ",", "!", "?", ";", ":", "(", ")", "-"}

\* re.sub(r'[^\w\s.,!?;:()-]', '', text)
sub_special(t) == SelectSeq(t, IsKept)

\* re.sub(r' +', ' ', text): every run of spaces becomes one space
RECURSIVE sub_space_runs(_)
sub_space_runs(t) ==
    IF t = <<>> THEN <<>>
    ELSE IF t[1] = " "
         THEN LET rest == {i \in 1..Len(t) : t[i] # " "}
              IN  IF rest = {} THEN <<" ">>
                  ELSE <<" ">> \o sub_space_runs(SubSeq(t, SetMin(rest), Len(t)))
         ELSE <<t[1]>> \o sub_space_runs(Tail(t))

\* clean_text without the final collapse of runs of spaces (line 63)
clean_text_no_space_runs(text) ==
    IF text = <<>> THEN <<>>
    ELSE strip(sub_special(sub_whitespace_runs(text)))

clean_text(text) ==
    IF text = <<>> THEN <<>>
    ELSE strip(sub_space_runs(sub_special(sub_whitespace_runs(text))))

----------------------------------------------------------------------------
(* ResumeRAGAnalyzer._generate_fallback_analysis                           *)

FallbackLines == <<
    \* (empty line)
    <<>>,
    \* 1. OVERALL MATCH: 78%
    <<"1","."," ","O","V","E","R","A","L","L"," ","M","A","T","C","H",":"," ","7","8","%">>,
    \* (empty line)
    <<>>,
    \* 2. STRENGTHS (Present in Resume):
    <<"2","."," ","S","T","R","E","N","G","T","H","S"," ","(","P","r","e","s","e","n","t"," ","i",
      "n"," ","R","e","s","u","m","e",")",":">>,
    \* - Strong programming skills in Python and JavaScript
    <<"-"," ","S","t","r","o","n","g"," ","p","r","o","g","r","a","m","m","i","n","g"," ","s","k",
      "i","l","l","s"," ","i","n"," ","P","y","t","h","o","n"," ","a","n","d"," ","J","a","v","a",
      "S","c","r","i","p","t">>,
    \* - Experience with web frameworks and cloud technologies
    <<"-"," ","E","x","p","e","r","i","e","n","c","e"," ","w","i","t","h"," ","w","e","b"," ","f",
      "r","a","m","e","w","o","r","k","s"," ","a","n","d"," ","c","l","o","u","d"," ","t","e","c",
      "h","n","o","l","o","g","i","e","s">>,
    \* - Demonstrated problem-solving abilities in previous roles
    <<"-"," ","D","e","m","o","n","s","t","r","a","t","e","d"," ","p","r","o","b","l","e","m","-",
      "s","o","l","v","i","n","g"," ","a","b","i","l","i","t","i","e","s"," ","i","n"," ","p","r",
      "e","v","i","o","u","s"," ","r","o","l","e","s">>,
    \* - Good educational background in Computer Science
    <<"-"," ","G","o","o","d"," ","e","d","u","c","a","t","i","o","n","a","l"," ","b","a","c","k",
      "g","r","o","u","n","d"," ","i","n"," ","C","o","m","p","u","t","e","r"," ","S","c","i","e",
      "n","c","e">>,
    \* (empty line)
    <<>>,
    \* 3. GAPS & AREAS FOR IMPROVEMENT (Missing or Weak in Resume):
    <<"3","."," ","G","A","P","S"," ","&"," ","A","R","E","A","S"," ","F","O","R"," ","I","M","P",
      "R","O","V","E","M","E","N","T"," ","(","M","i","s","s","i","n","g"," ","o","r"," ","W","e",
      "a","k"," ","i","n"," ","R","e","s","u","m","e",")",":">>,
    \* - Could benefit from more specific metrics to quantify achievements
    <<"-"," ","C","o","u","l","d"," ","b","e","n","e","f","i","t"," ","f","r","o","m"," ","m","o",
      "r","e"," ","s","p","e","c","i","f","i","c"," ","m","e","t","r","i","c","s"," ","t","o"," ",
      "q","u","a","n","t","i","f","y"," ","a","c","h","i","e","v","e","m","e","n","t","s">>,
    \* - Limited experience with advanced machine learning frameworks
    <<"-"," ","L","i","m","i","t","e","d"," ","e","x","p","e","r","i","e","n","c","e"," ","w","i",
      "t","h"," ","a","d","v","a","n","c","e","d"," ","m","a","c","h","i","n","e"," ","l","e","a",
      "r","n","i","n","g"," ","f","r","a","m","e","w","o","r","k","s">>,
    \* - Consider adding more leadership and collaboration examples
    <<"-"," ","C","o","n","s","i","d","e","r"," ","a","d","d","i","n","g"," ","m","o","r","e"," ",
      "l","e","a","d","e","r","s","h","i","p"," ","a","n","d"," ","c","o","l","l","a","b","o","r",
      "a","t","i","o","n"," ","e","x","a","m","p","l","e","s">>,
    \* (empty line)
    <<>>,
    \* 4. RECOMMENDATIONS:
    <<"4","."," ","R","E","C","O","M","M","E","N","D","A","T","I","O","N","S",":">>,
    \* - Add specific metrics to quantify your impact (e.g., "improved performance by 40%")
    <<"-"," ","A","d","d"," ","s","p","e","c","i","f","i","c"," ","m","e","t","r","i","c","s"," ",
      "t","o"," ","q","u","a","n","t","i","f","y"," ","y","o","u","r"," ","i","m","p","a","c","t",
      " ","(","e",".","g",".",","," ","\"","i","m","p","r","o","v","e","d"," ","p","e","r","f",
      "o","r","m","a","n","c","e"," ","b","y"," ","4","0","%","\"",")">>,
    \* - Highlight any relevant certifications or courses
    <<"-"," ","H","i","g","h","l","i","g","h","t"," ","a","n","y"," ","r","e","l","e","v","a","n",
      "t"," ","c","e","r","t","i","f","i","c","a","t","i","o","n","s"," ","o","r"," ","c","o","u",
      "r","s","e","s">>,
    \* - Include more details about team collaboration and leadership
    <<"-"," ","I","n","c","l","u","d","e"," ","m","o","r","e"," ","d","e","t","a","i","l","s"," ",
      "a","b","o","u","t"," ","t","e","a","m"," ","c","o","l","l","a","b","o","r","a","t","i","o",
      "n"," ","a","n","d"," ","l","e","a","d","e","r","s","h","i","p">>,
    \* - Tailor your skills section to match the job requirements more closely
    <<"-"," ","T","a","i","l","o","r"," ","y","o","u","r"," ","s","k","i","l","l","s"," ","s","e",
      "c","t","i","o","n"," ","t","o"," ","m","a","t","c","h"," ","t","h","e"," ","j","o","b"," ",
      "r","e","q","u","i","r","e","m","e","n","t","s"," ","m","o","r","e"," ","c","l","o","s","e",
      "l","y">>,
    \* (empty line)
    <<>>,
    \* Note: This is a sample analysis. For real-time AI analysis, please check your API configuration.
    <<"N","o","t","e",":"," ","T","h","i","s"," ","i","s"," ","a"," ","s","a","m","p","l","e"," ",
      "a","n","a","l","y","s","i","s","."," ","F","o","r"," ","r","e","a","l","-","t","i","m","e",
      " ","A","I"," ","a","n","a","l","y","s","i","s",","," ","p","l","e","a","s","e"," ","c","h",
      "e","c","k"," ","y","o","u","r"," ","A","P","I"," ","c","o","n","f","i","g","u","r","a","t",
      "i","o","n",".">>,
    \* (empty line)
    <<>>
    >>

\* the fallback text without its OVERALL MATCH line
fallback_without_overall_match == join(SubSeq(FallbackLines, 3, Len(FallbackLines)), "\n")

_generate_fallback_analysis == join(FallbackLines, "\n")

----------------------------------------------------------------------------
(* ResumeRAGAnalyzer.calculate_match_score                                 *)

NoMatch == <<"no match">>

\* group 1 of r'(\d{1,3})%' matched at position i (greedy: 3 digits first)
match_percent_at(t, i) ==
    LET ns == {n \in 1..3 : /\ i + n <= Len(t)
                            /\ \A j \in i..(i + n - 1) : IsDigit(t[j])
                            /\ t[i + n] = "%"}
    IN  IF ns = {} THEN NoMatch ELSE SubSeq(t, i, i + SetMax(ns) - 1)

OutOf100 == <<" ","o","u","t"," ","o","f"," ","1","0","0">>

\* group 1 of r'(\d{1,3}) out of 100' with re.IGNORECASE matched at position i
match_out_of_at(t, i) ==
    LET ns == {n \in 1..3 : /\ i + n - 1 + Len(OutOf100) <= Len(t)
                            /\ \A j \in i..(i + n - 1) : IsDigit(t[j])
                            /\ lower(SubSeq(t, i + n, i + n - 1 + Len(OutOf100))) = OutOf100}
    IN  IF ns = {} THEN NoMatch ELSE SubSeq(t, i, i + SetMax(ns) - 1)

\* re.search(r'(\d{1,3})%', t): the positions are tried from the left
RECURSIVE search_percent(_, _)
search_percent(t, i) ==
    IF i > Len(t) THEN NoMatch
    ELSE IF match_percent_at(t, i) # NoMatch THEN match_percent_at(t, i)
    ELSE search_percent(t, i + 1)

\* re.search(r'(\d{1,3}) out of 100', t, re.IGNORECASE)
RECURSIVE search_out_of(_, _)
search_out_of(t, i) ==
    IF i > Len(t) THEN NoMatch
    ELSE IF match_out_of_at(t, i) # NoMatch THEN match_out_of_at(t, i)
    ELSE search_out_of(t, i + 1)

clamp_missing(score) == score
clamp(score) == max(0, min(100, score))

DefaultScore == 75

calculate_match_score_no_empty_check(analysis_text) ==
    IF search_percent(analysis_text, 1) # NoMatch
    THEN clamp(int(search_percent(analysis_text, 1)))
    ELSE IF search_out_of(analysis_text, 1) # NoMatch
         THEN clamp(int(search_out_of(analysis_text, 1)))
         ELSE DefaultScore

calculate_match_score(analysis_text) ==
    IF analysis_text = <<>> THEN 0
    ELSE IF search_percent(analysis_text, 1) # NoMatch
         THEN clamp(int(search_percent(analysis_text, 1)))
         ELSE IF search_out_of(analysis_text, 1) # NoMatch
              THEN clamp(int(search_out_of(analysis_text, 1)))
              ELSE DefaultScore

----------------------------------------------------------------------------
(* app.py extract_section                                                  *)

\* the characters a line of a section's body may start with
BodyStarts == {" ", "-", Bullet, "\t"}

\* app.py:45  section_name.lower() in line.lower() and ':' in line
names_section(line, section_name) ==
    contains(lower(line), lower(section_name)) /\ contains(line, <<":">>)

\* app.py:49  line.strip() and ':' in line and not line.startswith((' ', '-', bullet, '\t'))
starts_new_section(line) ==
    strip(line) # <<>> /\ contains(line, <<":">>) /\ ~startswith(line, BodyStarts)

\* the loop without its break at the next section
RECURSIVE section_loop_no_break(_, _, _, _, _)
section_loop_no_break(lines, section_name, i, in_section, section_lines) ==
    IF i > Len(lines) THEN section_lines
    ELSE IF names_section(lines[i], section_name)
         THEN section_loop_no_break(lines, section_name, i + 1, TRUE, section_lines)
    ELSE IF in_section /\ strip(lines[i]) # <<>>
         THEN section_loop_no_break(lines, section_name, i + 1, in_section,
                                    section_lines \o <<lines[i]>>)
    ELSE section_loop_no_break(lines, section_name, i + 1, in_section, section_lines)

\* the for loop of extract_section from line i on: section_lines at its end
RECURSIVE section_loop(_, _, _, _, _)
section_loop(lines, section_name, i, in_section, section_lines) ==
    IF i > Len(lines) THEN section_lines
    ELSE IF names_section(lines[i], section_name)
         THEN section_loop(lines, section_name, i + 1, TRUE, section_lines)
    ELSE IF in_section /\ starts_new_section(lines[i])
         THEN section_lines
    ELSE IF in_section /\ strip(lines[i]) # <<>>
         THEN section_loop(lines, section_name, i + 1, in_section, section_lines \o <<lines[i]>>)
    ELSE section_loop(lines, section_name, i + 1, in_section, section_lines)

NoContentAvailable == <<"N","o"," ","c","o","n","t","e","n","t"," ","a","v","a","i","l","a","b","l","e"," ","f",
        "o","r"," ">>
NoSpecificContent == <<"N","o"," ","s","p","e","c","i","f","i","c"," ","c","o","n","t","e","n","t"," ","f","o",
        "u","n","d"," ","f","o","r"," ">>

extract_section(text, section_name) ==
    IF text = <<>> THEN NoContentAvailable \o section_name
    ELSE LET result ==
                 strip(join(section_loop(split(text, "\n"), section_name, 1, FALSE, <<>>), "\n"))
         IN  IF result # <<>> THEN result ELSE NoSpecificContent \o section_name

----------------------------------------------------------------------------
(* ResumeRAGAnalyzer.get_improvement_suggestions                           *)

\* rag_core.py:256
names_suggestions(line) ==
    \/ contains(lower(line), <<"r","e","c","o","m","m","e","n","d","a","t","i","o","n","s",":">>)
    \/ contains(lower(line), <<"s","u","g","g","e","s","t","i","o","n","s",":">>)

\* line.strip().startswith('-') or line.strip().startswith(bullet)
is_bullet(line) == startswith(strip(line), {"-", Bullet})

\* re.match(r'^\d+[\.\)]', line.strip())
is_numbered(line) ==
    LET s == strip(line)
        digits == {n \in 1..Len(s) : \A j \in 1..n : IsDigit(s[j])}
    IN  digits # {} /\ SetMax(digits) < Len(s) /\ s[SetMax(digits) + 1] \in {".", ")"}

\* the text after its leading run of characters of the set chars
DropLeading(s, chars) ==
    LET rest == {i \in 1..Len(s) : s[i] \notin chars}
    IN  IF rest = {} THEN <<>> ELSE SubSeq(s, SetMin(rest), Len(s))

DigitChars == Range(Digits)

\* re.sub(r'^[-bullet\d.\s]+', '', line.strip()).strip()
clean_bullet(line) ==
    strip(DropLeading(strip(line), {"-", Bullet, "."} \cup DigitChars \cup SpaceChars))

\* re.sub(r'^\d+[\.\)]\s*', '', line.strip()).strip()
clean_numbered(line) ==
    strip(DropLeading(Tail(DropLeading(strip(line), DigitChars)), SpaceChars))

\* rag_core.py:268, 274  clean_suggestion and len(clean_suggestion) > 10
is_kept_at_least_10(clean_suggestion) == clean_suggestion # <<>> /\ Len(clean_suggestion) >= 10
is_kept(clean_suggestion) == clean_suggestion # <<>> /\ Len(clean_suggestion) > 10

\* the for loop of get_improvement_suggestions from line i on: suggestions at its end
RECURSIVE suggestions_loop(_, _, _, _)
suggestions_loop(lines, i, in_suggestions_section, suggestions) ==
    IF i > Len(lines) THEN suggestions
    ELSE IF names_suggestions(lines[i])
         THEN suggestions_loop(lines, i + 1, TRUE, suggestions)
    ELSE IF ~in_suggestions_section
         THEN suggestions_loop(lines, i + 1, FALSE, suggestions)
    ELSE IF starts_new_section(lines[i])
         THEN suggestions
    ELSE IF strip(lines[i]) # <<>> /\ is_bullet(lines[i])
         THEN suggestions_loop(lines, i + 1, TRUE,
                  IF is_kept(clean_bullet(lines[i]))
                  THEN suggestions \o <<clean_bullet(lines[i])>> ELSE suggestions)
    ELSE IF strip(lines[i]) # <<>> /\ is_numbered(lines[i])
         THEN suggestions_loop(lines, i + 1, TRUE,
                  IF is_kept(clean_numbered(lines[i]))
                  THEN suggestions \o <<clean_numbered(lines[i])>> ELSE suggestions)
    ELSE suggestions_loop(lines, i + 1, TRUE, suggestions)

NoAnalysisAvailable == <<<<"N","o"," ","a","n","a","l","y","s","i","s"," ","a","v","a","i","l","a","b","l","e"," ",
        "t","o"," ","e","x","t","r","a","c","t"," ","s","u","g","g","e","s","t","i","o","n","s">>>>

GenericSuggestions == <<
    <<"A","d","d"," ","s","p","e","c","i","f","i","c"," ","m","e","t","r","i","c","s"," ","t",
        "o"," ","q","u","a","n","t","i","f","y"," ","y","o","u","r"," ","a","c","h","i","e","v",
        "e","m","e","n","t","s">>,
    <<"T","a","i","l","o","r"," ","y","o","u","r"," ","s","k","i","l","l","s"," ","s","e","c",
        "t","i","o","n"," ","t","o"," ","m","a","t","c","h"," ","j","o","b"," ","r","e","q","u",
        "i","r","e","m","e","n","t","s">>,
    <<"H","i","g","h","l","i","g","h","t"," ","r","e","l","e","v","a","n","t"," ","c","e","r",
        "t","i","f","i","c","a","t","i","o","n","s"," ","a","n","d"," ","c","o","u","r","s","e",
        "s">>,
    <<"I","n","c","l","u","d","e"," ","m","o","r","e"," ","d","e","t","a","i","l","s"," ","a",
        "b","o","u","t"," ","t","e","a","m"," ","c","o","l","l","a","b","o","r","a","t","i","o",
        "n">>>>

get_improvement_suggestions(analysis_text) ==
    IF analysis_text = <<>> THEN NoAnalysisAvailable
    ELSE LET suggestions == suggestions_loop(split(analysis_text, "\n"), 1, FALSE, <<>>)
         IN  IF suggestions # <<>> THEN suggestions ELSE GenericSuggestions

----------------------------------------------------------------------------
(* The analyze pipeline                                                    *)

\* The sessions that call the one cached analyzer (app.py get_analyzer)
Calls == {"s1", "s2"}

\* The most chunks the collection holds when a new call is started: one session,
\* and two sessions
MaxStored == 6
MaxStoredConcurrent == 2

\* k of query_job_description
TopK == 5

\* chunk_size of the text splitter
chunk_size == 1000

\* The collection before anything created it
Absent == "absent"

\* Chroma(...): get_or_create_collection
Created(c) == IF c = Absent THEN <<>> ELSE c

\* Arguments the calls are made with
ResumeTexts == {<<>>, <<" ">>, <<"r">>, <<"\n", "r", " ">>}
JobDescTexts == {<<>>, <<"\t">>, <<"a">>, <<"b", " ">>, <<"@">>}

\* Replies of the generative model
ModelReplies == {
    <<>>,
    <<"8","3","%">>,
    <<"1","4","2","%">>,
    <<"n","o","n","e">>,
    <<"7"," ","O","U","T"," ","O","F"," ","1","0","0">>}

NoRelevantAnalysis ==
    <<"N","o"," ","r","e","l","e","v","a","n","t"," ","j","o","b"," ","d","e","s","c","r","i","p",
      "t","i","o","n"," ","r","e","q","u","i","r","e","m","e","n","t","s"," ","f","o","u","n","d",
      "."," ","P","l","e","a","s","e"," ","c","h","e","c","k"," ","y","o","u","r"," ","i","n","p",
      "u","t","s",".">>

None == [kind |-> "none"]
Raise(error) == [kind |-> "raise", error |-> error]
\* the dict analyze_resume_vs_jd returns
Result(score, text, chunks) ==
    [kind |-> "return", score |-> score, analysis |-> text, relevant_chunks |-> chunks]
\* the list query_job_description returns
Return(value) == [kind |-> "return", value |-> value]

\* not text.strip()
is_blank(text) == strip(text) = <<>>

\* RecursiveCharacterTextSplitter.split_documents for a text that fits one chunk;
\* a text with no content gives no chunk
split_documents(cleaned) ==
    CASE cleaned = <<>> -> <<>>
      [] Len(cleaned) \in 1..chunk_size -> <<cleaned>>

\* Chroma.from_documents on an existing collection adds the documents to it
from_documents(stored, chunks) == Created(stored) \o chunks

Count(s, v) == Cardinality({i \in 1..Len(s) : s[i] = v})

\* similarity_search(query, k): the k stored chunks nearest to the query, nearest
\* first; which chunks are nearest is the embedding model's matter
similarity_search_top1(stored, k) ==
    {s \in [1..min(1, Len(stored)) -> Range(stored)] :
        \A v \in Range(stored) : Count(s, v) <= Count(stored, v)}
similarity_search(stored, k) ==
    {s \in [1..min(k, Len(stored)) -> Range(stored)] :
        \A v \in Range(stored) : Count(s, v) <= Count(stored, v)}

IdleCall == [c \in Calls |-> "idle"]
NoText == [c \in Calls |-> <<>>]

InitCalls ==
    /\ coll = Absent
    /\ pc = IdleCall
    /\ op = [c \in Calls |-> "none"]
    /\ resume = NoText
    /\ jd = NoText
    /\ relevant = NoText
    /\ analysis = NoText
    /\ fault = [c \in Calls |-> "none"]
    /\ ret = [c \in Calls |-> None]

InitParser ==
    /\ fn = "none"
    /\ arg = <<>>
    /\ out = <<>>

Init == InitCalls /\ InitParser

Goto(c, stage) == pc' = [pc EXCEPT ![c] = stage]
Finish(c, r) == Goto(c, "done") /\ ret' = [ret EXCEPT ![c] = r]
Fails(c, kind) == fault' = [fault EXCEPT ![c] = kind]

\* rag_core.py:121  not resume_text.strip() or not job_desc_text.strip()
inputs_missing_and(resume_text, job_desc_text) == is_blank(resume_text) /\ is_blank(job_desc_text)
inputs_missing(resume_text, job_desc_text) == is_blank(resume_text) \/ is_blank(job_desc_text)

\* A session calls analyze_resume_vs_jd(resume_text, job_desc_text)
analyze_resume_vs_jd(c, resumes, jds, limit) ==
    /\ pc[c] = "idle"
    /\ Len(Created(coll)) < limit
    /\ \E resume_text \in resumes, job_desc_text \in jds :
        /\ op' = [op EXCEPT ![c] = "analyze"]
        /\ resume' = [resume EXCEPT ![c] = resume_text]
        /\ jd' = [jd EXCEPT ![c] = job_desc_text]
        /\ IF inputs_missing(resume_text, job_desc_text)
           THEN Finish(c, Raise("ValueError"))
           ELSE Goto(c, "process") /\ UNCHANGED ret
    /\ UNCHANGED <<coll, relevant, analysis, fault, parserVars>>

\* process_job_description: the chunks are embedded and added to the collection
process_job_description(c) ==
    /\ pc[c] = "process"
    /\ IF is_blank(jd[c])
       THEN Finish(c, Raise("ValueError")) /\ UNCHANGED coll
       ELSE LET chunks == split_documents(clean_text(jd[c]))
            IN  /\ coll' = from_documents(coll, chunks)
                /\ Goto(c, "query")
                /\ UNCHANGED ret
    /\ UNCHANGED <<op, resume, jd, relevant, analysis, fault, parserVars>>

\* the embedding call of Chroma.from_documents fails: the exception leaves
\* process_job_description and analyze_resume_vs_jd
process_embedding_fails(c) ==
    /\ pc[c] = "process"
    /\ ~is_blank(jd[c])
    /\ split_documents(clean_text(jd[c])) # <<>>
    /\ coll' = Created(coll)
    /\ Fails(c, "embedding")
    /\ Finish(c, Raise("EmbeddingError"))
    /\ UNCHANGED <<op, resume, jd, relevant, analysis, parserVars>>

\* the store fails while the collection is opened, written or persisted
\* (rag_core.py:86-92); what reached the disk before the failure is not known
process_storage_fails(c) ==
    /\ pc[c] = "process"
    /\ ~is_blank(jd[c])
    /\ coll' \in {coll, Created(coll), from_documents(coll, split_documents(clean_text(jd[c])))}
    /\ Fails(c, "storage")
    /\ Finish(c, Raise("StorageError"))
    /\ UNCHANGED <<op, resume, jd, relevant, analysis, parserVars>>

\* the store refuses an empty list of documents (a job description with no
\* content left after clean_text), as some versions of the store do
process_empty_rejected(c) ==
    /\ pc[c] = "process"
    /\ ~is_blank(jd[c])
    /\ split_documents(clean_text(jd[c])) = <<>>
    /\ coll' = Created(coll)
    /\ Finish(c, Raise("ValueError"))
    /\ UNCHANGED <<op, resume, jd, relevant, analysis, fault, parserVars>>

\* what the caller of query_job_description does with the list it returns:
\* analyze_resume_vs_jd goes on (rag_core.py:131-139), a direct call returns it
Queried_without_empty_check(c, results) ==
    /\ relevant' = [relevant EXCEPT ![c] = results]
    /\ IF op[c] = "query"
       THEN Finish(c, Return(results))
       ELSE Goto(c, "generate") /\ UNCHANGED ret
Queried(c, results) ==
    /\ relevant' = [relevant EXCEPT ![c] = results]
    /\ IF op[c] = "query"
       THEN Finish(c, Return(results))
       ELSE IF results = <<>>
            THEN Finish(c, Result(0, NoRelevantAnalysis, <<>>))
            ELSE Goto(c, "generate") /\ UNCHANGED ret

\* A session calls query_job_description(resume_text) itself
query_call(c, resumes) ==
    /\ pc[c] = "idle"
    /\ \E resume_text \in resumes :
        /\ op' = [op EXCEPT ![c] = "query"]
        /\ resume' = [resume EXCEPT ![c] = resume_text]
    /\ Goto(c, "query")
    /\ UNCHANGED <<coll, jd, relevant, analysis, fault, ret, parserVars>>

\* rag_core.py:105-117 when nothing fails: Chroma(...) opens the collection,
\* creating it when it is missing, and the search runs on what it holds
query_results_missing_raises(stored, k) ==
    IF stored = Absent THEN {Raise("StorageError")}
    ELSE {Return(results) : results \in similarity_search(stored, k)}
query_results(stored, k) ==
    {Return(results) : results \in similarity_search(Created(stored), k)}

\* query_job_description: the collection is opened and searched
query_job_description(c) ==
    /\ pc[c] = "query"
    /\ IF is_blank(resume[c])
       THEN Finish(c, Raise("ValueError")) /\ UNCHANGED <<coll, relevant>>
       ELSE /\ coll' = Created(coll)
            /\ \E outcome \in query_results(coll, TopK) :
                IF outcome.kind = "raise"
                THEN Finish(c, outcome) /\ UNCHANGED relevant
                ELSE Queried(c, outcome.value)
    /\ UNCHANGED <<op, resume, jd, analysis, fault, parserVars>>

\* Chroma(...) raises: the bare except returns [] (rag_core.py:105-113)
query_open_fails(c) ==
    /\ pc[c] = "query"
    /\ ~is_blank(resume[c])
    /\ Fails(c, "open")
    /\ Queried(c, <<>>)
    /\ UNCHANGED <<coll, op, resume, jd, analysis, parserVars>>

\* similarity_search raises (the query embedding, or the store): the exception
\* leaves query_job_description
query_search_fails(c) ==
    /\ pc[c] = "query"
    /\ ~is_blank(resume[c])
    /\ coll' = Created(coll)
    /\ \E kind \in {"embedding", "storage"} :
        /\ Fails(c, kind)
        /\ Finish(c, Raise(IF kind = "embedding" THEN "EmbeddingError" ELSE "StorageError"))
    /\ UNCHANGED <<op, resume, jd, relevant, analysis, parserVars>>

\* generate_analysis: the chain answers
generate_analysis(c, replies) ==
    /\ pc[c] = "generate"
    /\ \E reply \in replies : analysis' = [analysis EXCEPT ![c] = reply]
    /\ Goto(c, "score")
    /\ UNCHANGED <<coll, op, resume, jd, relevant, fault, ret, parserVars>>

\* generate_analysis: the chain raises, the except returns the fallback text
generate_fails(c) ==
    /\ pc[c] = "generate"
    /\ analysis' = [analysis EXCEPT ![c] = _generate_fallback_analysis]
    /\ Fails(c, "generation")
    /\ Goto(c, "score")
    /\ UNCHANGED <<coll, op, resume, jd, relevant, ret, parserVars>>

\* rag_core.py:142-148: the score is parsed and the result returned
score_and_return(c) ==
    /\ pc[c] = "score"
    /\ Finish(c, Result(calculate_match_score(analysis[c]), analysis[c], relevant[c]))
    /\ UNCHANGED <<coll, op, resume, jd, relevant, analysis, fault, parserVars>>

\* The caller has its answer; the session is free for its next call
next_call(c) ==
    /\ pc[c] = "done"
    /\ pc' = [pc EXCEPT ![c] = "idle"]
    /\ op' = [op EXCEPT ![c] = "none"]
    /\ resume' = [resume EXCEPT ![c] = <<>>]
    /\ jd' = [jd EXCEPT ![c] = <<>>]
    /\ relevant' = [relevant EXCEPT ![c] = <<>>]
    /\ analysis' = [analysis EXCEPT ![c] = <<>>]
    /\ fault' = [fault EXCEPT ![c] = "none"]
    /\ ret' = [ret EXCEPT ![c] = None]
    /\ UNCHANGED <<coll, parserVars>>

\* One step of a session's call
CallStep(c, resumes, jds, replies, limit) ==
    \/ analyze_resume_vs_jd(c, resumes, jds, limit)
    \/ process_job_description(c)
    \/ process_embedding_fails(c)
    \/ process_storage_fails(c)
    \/ process_empty_rejected(c)
    \/ query_call(c, resumes)
    \/ query_job_description(c)
    \/ query_open_fails(c)
    \/ query_search_fails(c)
    \/ generate_analysis(c, replies)
    \/ generate_fails(c)
    \/ score_and_return(c)
    \/ next_call(c)

\* One session, calling again and again
Next == \E c \in {"s1"} : CallStep(c, ResumeTexts, JobDescTexts, ModelReplies, MaxStored)

Spec == Init /\ [][Next]_vars

\* One session whose services never fail
NextReliable ==
    \E c \in {"s1"} :
        \/ analyze_resume_vs_jd(c, ResumeTexts, JobDescTexts, MaxStored)
        \/ process_job_description(c)
        \/ query_job_description(c)
        \/ generate_analysis(c, ModelReplies)
        \/ score_and_return(c)
        \/ next_call(c)

SpecReliable == Init /\ [][NextReliable]_vars

\* Two sessions of the same server, their calls interleaved step by step
NextConcurrent ==
    \E c \in Calls :
        CallStep(c, {<<"r">>}, {<<"a">>, <<"b", " ">>, <<"@">>}, {<<"8", "3", "%">>},
                 MaxStoredConcurrent)

SpecConcurrent == Init /\ [][NextConcurrent]_vars

----------------------------------------------------------------------------
(* Runs of the parsers on their own: an input is drawn, the function runs  *)

Pending == [done |-> FALSE]
Done(value) == [done |-> TRUE, value |-> value]

\* the most pieces an analysis text is put together from
MaxPieces == 3
\* the most lines in the body of the GAPS section, in the body of the
\* RECOMMENDATIONS section, and after the last section
MaxBodyLines == 2
MaxRecommendationLines == 1
MaxTrailingLines == 2
\* the most list items of a recommendations section
MaxItems == 2

\* every text put together from at most n of the pieces
RECURSIVE Concats(_, _)
Concats(pieces, n) ==
    IF n = 0 THEN {<<>>}
    ELSE LET shorter == Concats(pieces, n - 1)
         IN  shorter \cup {t \o p : t \in shorter, p \in pieces}

\* every sequence of at most n of the lines
LinesUpTo(lines, n) == UNION {[1..m -> lines] : m \in 0..n}

ScorePieces == {
    <<"1">>, <<"0">>, <<"7">>, <<"1", "4">>, <<"%">>, <<"x">>,
    <<" ","o","u","t"," ","o","f"," ","1","0","0">>,
    <<" ","O","u","t"," ","O","F"," ","1","0","0">>,
    <<" ","o","u","t"," ","o","f"," ","1","0">>}

ScoreTexts == Concats(ScorePieces, MaxPieces)

InitScore ==
    /\ InitCalls
    /\ fn = "calculate_match_score"
    /\ arg \in ScoreTexts
    /\ out = Pending

run_calculate_match_score ==
    /\ fn = "calculate_match_score"
    /\ ~out.done
    /\ out' = Done(calculate_match_score(arg))
    /\ UNCHANGED <<callVars, fn, arg>>

SpecScore == InitScore /\ [][run_calculate_match_score]_vars

\* The analysis texts of the section runs: the lines before the GAPS section,
\* the GAPS section, the RECOMMENDATIONS section, the lines after them
GAPS == <<"G", "A", "P", "S">>
GapsHeader == <<"3","."," ","G","A","P","S",":">>
RecommendationsHeader == <<"4","."," ","R","E","C","O","M","M","E","N","D","A","T","I","O","N","S",":">>

BeforeLines == {
    <<>>,
    <<<<"2","."," ","S","T","R","E","N","G","T","H","S",":">>, <<"-"," ","s">>>>,
    <<<<"2","."," ","S","T","R","E","N","G","T","H","S",":">>, <<"-"," ","n","o"," ","g","a","p","s",":"," ","s">>>>}
GapsBodyLines == {<<"-"," ","g">>, <<>>, <<"k",":"," ","v">>}
RecommendationsBodyLines == {<<"-"," ","r">>, <<"-"," ","g","a","p","s",":"," ","x">>}
TrailingLines == {<<"N","o","t","e",":"," ","n">>, <<"b","y","e">>, <<>>}

SectionInputs ==
    [before : BeforeLines,
     gaps : {<<GapsHeader>> \o body : body \in LinesUpTo(GapsBodyLines, MaxBodyLines)},
     recommendations :
         {<<RecommendationsHeader>> \o body :
              body \in LinesUpTo(RecommendationsBodyLines, MaxRecommendationLines)},
     trailing : LinesUpTo(TrailingLines, MaxTrailingLines)]

\* the text with RECOMMENDATIONS after GAPS, and with it moved before GAPS
RecommendationsAfter(a) == join(a.before \o a.gaps \o a.recommendations \o a.trailing, "\n")
RecommendationsBefore(a) == join(a.before \o a.recommendations \o a.gaps \o a.trailing, "\n")

InitSections ==
    /\ InitCalls
    /\ fn = "extract_section"
    /\ arg \in SectionInputs
    /\ out = Pending

run_extract_section ==
    /\ fn = "extract_section"
    /\ ~out.done
    /\ out' = Done([after |-> extract_section(RecommendationsAfter(arg), GAPS),
                    before |-> extract_section(RecommendationsBefore(arg), GAPS)])
    /\ UNCHANGED <<callVars, fn, arg>>

SpecSections == InitSections /\ [][run_extract_section]_vars

\* The analysis texts of the suggestion runs: a header line, list items, a tail
SuggestionHeaders == {<<"4","."," ","R","E","C","O","M","M","E","N","D","A","T","I","O","N","S",":">>, <<"S","u","g","g","e","s","t","i","o","n","s",":">>}
Dash == <<"-", " ">>
Dot == <<Bullet, " ">>
Numbered == <<"1", ".", " ">>
Bracketed == <<"2", ")", " ">>
Body2 == <<"O","K">>
Body10 == <<"A","d","d"," ","t","e","s","t","s",".">>
Body11 == <<"A","d","d"," ","a"," ","t","e","s","t",".">>
BodyDigit == <<"3"," ","m","o","r","e"," ","t","e","s","t","s">>
BodyColon == <<"L","e","a","r","n",":"," ","D","o","c","k","e","r">>
ItemLines ==
    {Dash \o body : body \in {Body2, Body10, Body11, BodyDigit, BodyColon}}
    \cup {Dot \o body : body \in {Body10, Body11}}
    \cup {Numbered \o body : body \in {Body10, Body11, BodyDigit, BodyColon}}
    \cup {Bracketed \o body : body \in {Body11}}
Tails == {<<>>, <<<<"N","o","t","e",":"," ","d","o","n","e">>, <<"-"," ","I","t","e","m"," ","a","f","t","e","r"," ","t","h","e"," ","s","e","c","t","i",
        "o","n">>>>}

SuggestionTexts ==
    {join(<<header>> \o items \o tail, "\n") :
         header \in SuggestionHeaders, items \in LinesUpTo(ItemLines, MaxItems), tail \in Tails}

InitSuggestions ==
    /\ InitCalls
    /\ fn = "get_improvement_suggestions"
    /\ arg \in SuggestionTexts
    /\ out = Pending

run_get_improvement_suggestions ==
    /\ fn = "get_improvement_suggestions"
    /\ ~out.done
    /\ out' = Done(get_improvement_suggestions(arg))
    /\ UNCHANGED <<callVars, fn, arg>>

SpecSuggestions == InitSuggestions /\ [][run_get_improvement_suggestions]_vars

\* ---- clean_text applied once and applied again to its own result ----
MaxCleanLen == 5

\* characters of each class the three substitutions tell apart: space, other
\* whitespace, a word character, kept punctuation, a removed character
CleanChars == {" ", "\n", "\t", "a", ".", "@"}
CleanTexts == UNION {[1..n -> CleanChars] : n \in 0..MaxCleanLen}

InitClean ==
    /\ InitCalls
    /\ fn = "clean_text"
    /\ arg \in CleanTexts
    /\ out = Pending

run_clean_text ==
    /\ fn = "clean_text"
    /\ ~out.done
    /\ out' = Done([once |-> clean_text(arg),
                    twice |-> clean_text(clean_text(arg))])
    /\ UNCHANGED <<callVars, fn, arg>>

SpecClean == InitClean /\ [][run_clean_text]_vars

----------------------------------------------------------------------------
(* Properties of the analyze pipeline                                      *)

\* a text with nothing but whitespace in it
OnlyWhitespace(t) == \A i \in 1..Len(t) : IsSpace(t[i])

\* the chunks a call submits for its own job description
OwnChunks(c) == Range(split_documents(clean_text(jd[c])))

Returned(c) == pc[c] = "done" /\ op[c] = "analyze" /\ ret[c].kind = "return"

\* C1: analyze_resume_vs_jd raises ValueError whenever the resume or the job
\* description is empty after trimming, whatever the other one is; the call goes
\* on to its later steps, and returns a result, only when both have content.
C1_EmptyInputRaisesValueError ==
    \A c \in Calls :
        op[c] = "analyze" =>
            /\ (OnlyWhitespace(resume[c]) \/ OnlyWhitespace(jd[c]))
                   => (pc[c] = "done" /\ ret[c] = Raise("ValueError"))
            /\ ret[c].kind = "return"
                   => (~OnlyWhitespace(resume[c]) /\ ~OnlyWhitespace(jd[c]))

\* C1 happens: a whitespace-only resume with a real job description was refused
C1_Witness ==
    \E c \in Calls :
        /\ pc[c] = "done" /\ op[c] = "analyze"
        /\ resume[c] = <<" ">> /\ jd[c] = <<"a">>
        /\ ret[c] = Raise("ValueError")

\* C2: every result analyze_resume_vs_jd returns has an integer score in 0..100,
\* whether the retrieval was empty, the model answered or the fallback was used.
C2_ScoreInRange ==
    \A c \in Calls : Returned(c) => ret[c].score \in 0..100

\* C2 happens: a reply with a percentage above 100 was returned with score 100
C2_Witness ==
    \E c \in Calls :
        /\ Returned(c)
        /\ ret[c].analysis = <<"1","4","2","%">>
        /\ ret[c].score = 100

FourHeaders == {
    <<"O","V","E","R","A","L","L"," ","M","A","T","C","H">>,
    <<"S","T","R","E","N","G","T","H","S">>,
    <<"G","A","P","S"," ","&"," ","A","R","E","A","S"," ","F","O","R"," ","I","M","P","R","O","V","E",
  "M","E","N","T">>,
    <<"R","E","C","O","M","M","E","N","D","A","T","I","O","N","S">>}

\* C4: when the generative model fails, the call does not raise: the analysis is
\* the fixed fallback text, which has the four section headers and 78%, and
\* analyze_resume_vs_jd returns it with score 78.
C4_GenerationFailureFallsBack ==
    \A c \in Calls :
        fault[c] = "generation" =>
            /\ pc[c] \in {"score", "done"}
            /\ analysis[c] = _generate_fallback_analysis
            /\ \A header \in FourHeaders : contains(analysis[c], header)
            /\ contains(analysis[c], <<"7", "8", "%">>)
            /\ pc[c] = "done" =>
                   ret[c] = Result(78, _generate_fallback_analysis, relevant[c])

\* C4 happens: a call whose generation failed has returned
C4_Witness ==
    \E c \in Calls :
        /\ fault[c] = "generation"
        /\ Returned(c)
        /\ ret[c].score = 78
        /\ ret[c].relevant_chunks # <<>>

\* C5: a failure of the embedding service or of the store at any step of
\* analyze_resume_vs_jd (writing the collection, opening it, searching it)
\* reaches the caller as a raised error, never as a returned result.
C5_ServiceFailuresPropagate ==
    \A c \in Calls :
        (op[c] = "analyze" /\ pc[c] = "done" /\ fault[c] \in {"embedding", "storage", "open"})
            => ret[c].kind = "raise"

\* C6: after a job description is submitted the collection holds the chunks of
\* that submission only, and the relevant_chunks a call returns are all chunks
\* of that call's own job description (stated for job descriptions that have
\* content left after clean_text).
C6_OnlyLatestSubmissionStored ==
    \A c \in Calls :
        OwnChunks(c) # {} =>
            /\ (op[c] = "analyze" /\ pc[c] = "query")
                   => Range(coll) \subseteq OwnChunks(c)
            /\ Returned(c) => Range(ret[c].relevant_chunks) \subseteq OwnChunks(c)

\* C7: the sessions share the one collection with no isolation: when another
\* submission was written after a call's own write and before its query, the
\* call's query returns the other submission's chunk (as long as the collection
\* holds no more than k chunks).
C7_QuerySeesLaterWrite ==
    [][\A c \in Calls :
          ( /\ op[c] = "analyze" /\ pc[c] = "query" /\ pc'[c] = "generate"
            /\ coll # Absent /\ Len(coll) \in 1..TopK
            /\ coll[Len(coll)] \notin OwnChunks(c) )
          => coll[Len(coll)] \in Range(relevant'[c])]_vars

\* C7 happens: s2 wrote between s1's write and s1's query, and s1's
\* relevant_chunks hold the chunk of s2's job description
C7_Witness ==
    \E c \in Calls, d \in Calls :
        /\ c # d
        /\ op[c] = "analyze" /\ pc[c] = "generate"
        /\ op[d] = "analyze" /\ pc[d] = "query"
        /\ OwnChunks(c) = {<<"a">>} /\ OwnChunks(d) = {<<"b">>}
        /\ coll = <<<<"a">>, <<"b">>>>
        /\ <<"b">> \in Range(relevant[c])

\* C8: query_job_description with a resume that has content, on a collection
\* nothing was ever written to, returns the empty list and raises nothing
\* (the services answering).
C8_QueryOfUnwrittenCollectionIsEmpty ==
    \A c \in Calls :
        ( /\ op[c] = "query" /\ pc[c] = "done"
          /\ ~OnlyWhitespace(resume[c])
          /\ Created(coll) = <<>>
          /\ fault[c] \in {"none", "open"} )
        => ret[c] = Return(<<>>)

\* C8 happens: the first call ever made was a query, and it returned []
C8_Witness ==
    \E c \in Calls :
        /\ op[c] = "query" /\ pc[c] = "done"
        /\ resume[c] = <<"r">>
        /\ fault[c] = "none"
        /\ coll = <<>>
        /\ ret[c] = Return(<<>>)

----------------------------------------------------------------------------
(* Properties of the parsers                                               *)

\* the value of a string of digits
RECURSIVE Power10(_)
Power10(n) == IF n = 0 THEN 1 ELSE 10 * Power10(n - 1)
Decimal(s) ==
    LET RECURSIVE Sum(_)
        Sum(i) == IF i > Len(s) THEN 0
                  ELSE DigitValue(s[i]) * Power10(Len(s) - i) + Sum(i + 1)
    IN  Sum(1)

\* i starts a run of n digits that the text `tail` follows at once
DigitsThen(t, i, n, tail) ==
    /\ i + n - 1 + Len(tail) <= Len(t)
    /\ \A j \in i..(i + n - 1) : IsDigit(t[j])
    /\ lower(SubSeq(t, i + n, i + n - 1 + Len(tail))) = tail

\* the number of the first <1-3 digits><tail> of the text, within 0..100
FirstNumberBefore(t, tail) ==
    LET hits == {i \in 1..Len(t) : \E n \in 1..3 : DigitsThen(t, i, n, tail)}
        i == SetMin(hits)
        n == CHOOSE n \in 1..3 : DigitsThen(t, i, n, tail)
        number == Decimal(SubSeq(t, i, i + n - 1))
    IN  IF number > 100 THEN 100 ELSE number

HasNumberBefore(t, tail) ==
    \E i \in 1..Len(t), n \in 1..3 : DigitsThen(t, i, n, tail)

\* the score the specification's three rules give
ScoreByRules(t) ==
    IF HasNumberBefore(t, <<"%">>) THEN FirstNumberBefore(t, <<"%">>)
    ELSE IF HasNumberBefore(t, OutOf100) THEN FirstNumberBefore(t, OutOf100)
    ELSE 75

ScoreRun == fn = "calculate_match_score" /\ out.done

\* C3 as stated: for every analysis text calculate_match_score returns the first
\* 1-3 digit integer followed by '%', clamped to 0..100; failing that the integer
\* of the first '<int> out of 100' (any case), clamped; failing both, 75.
C3_Original_EveryText == ScoreRun => out.value = ScoreByRules(arg)

\* C3, amended: that holds for every analysis text that is not empty; for the
\* empty text calculate_match_score returns 0.
C3_ScoreByRulesUnlessEmpty ==
    ScoreRun => out.value = (IF arg = <<>> THEN 0 ELSE ScoreByRules(arg))

\* C3 happens: a text with no percentage and '7 Out OF 100' in it gave 7
C3_Witness ==
    /\ ScoreRun
    /\ arg = <<"x">> \o <<"7">> \o <<" ","O","u","t"," ","O","F"," ","1","0","0">>
    /\ out.value = 7

SectionRun == fn = "extract_section" /\ out.done

\* C9 as stated: whatever the sections and the trailing lines are, moving the
\* RECOMMENDATIONS section from after the GAPS section to before it leaves
\* extract_section(text, "GAPS") unchanged.
C9_Original_StableUnderReordering == SectionRun => out.value.after = out.value.before

\* no line before the GAPS header or in the RECOMMENDATIONS section holds the
\* section name and a colon
NoOtherLineNamesGaps(a) ==
    \A i \in 1..Len(a.before \o a.recommendations) :
        ~names_section((a.before \o a.recommendations)[i], GAPS)

\* the trailing lines are blank, or their first line with content starts a new
\* top-level section and does not hold the section name
TrailingStartsNewSection(a) ==
    LET content == {i \in 1..Len(a.trailing) : strip(a.trailing[i]) # <<>>}
    IN  \/ content = {}
        \/ /\ starts_new_section(a.trailing[SetMin(content)])
           /\ ~names_section(a.trailing[SetMin(content)], GAPS)

\* C9, amended: moving RECOMMENDATIONS before GAPS leaves the extracted GAPS
\* content unchanged when the GAPS header is the only line outside the GAPS body
\* that holds "gaps" and a colon, and the trailing lines are blank or begin with
\* a line that starts a new top-level section.
C9_StableWhenGapsStaysDelimited ==
    (SectionRun /\ NoOtherLineNamesGaps(arg) /\ TrailingStartsNewSection(arg))
        => out.value.after = out.value.before

\* C9 happens: GAPS and RECOMMENDATIONS both have a body, a note follows, and
\* the GAPS body is what both orders give
C9_Witness ==
    /\ SectionRun
    /\ arg.before # <<>>
    /\ arg.gaps = <<GapsHeader, <<"-"," ","g">>>>
    /\ arg.recommendations = <<RecommendationsHeader, <<"-"," ","r">>>>
    /\ arg.trailing = <<<<"N","o","t","e",":"," ","n">>>>
    /\ out.value.after = <<"-"," ","g">>
    /\ out.value.before = <<"-"," ","g">>

\* the list items of the recommendations section of a text, prefix stripped,
\* that have at least minLen characters, in their order; the four generic
\* suggestions when there is none
SuggestionsOfLength(text, minLen) ==
    LET lines == split(text, "\n")
        headers == {i \in 1..Len(lines) : names_suggestions(lines[i])}
        first == SetMin(headers)
        ends == {i \in (first + 1)..Len(lines) :
                     ~names_suggestions(lines[i]) /\ starts_new_section(lines[i])}
        last == IF ends = {} THEN Len(lines) ELSE SetMin(ends) - 1
        IsItem(i) == /\ i \in (first + 1)..last
                     /\ ~names_suggestions(lines[i])
                     /\ (is_bullet(lines[i]) \/ is_numbered(lines[i]))
        ItemText(i) == IF is_bullet(lines[i]) THEN clean_bullet(lines[i])
                       ELSE clean_numbered(lines[i])
        Kept(i) == IsItem(i) /\ Len(ItemText(i)) >= minLen
        kept == SelectSeq([i \in 1..Len(lines) |-> i], Kept)
    IN  IF headers = {} \/ kept = <<>> THEN GenericSuggestions
        ELSE [j \in 1..Len(kept) |-> ItemText(kept[j])]

SuggestionRun == fn = "get_improvement_suggestions" /\ out.done

\* C10 as stated: a bullet or numbered item of the recommendations section is
\* returned exactly when its text, its prefix stripped, has at least 10
\* characters.
C10_Original_AtLeast10 == SuggestionRun => out.value = SuggestionsOfLength(arg, 10)

\* C10, amended: a bullet or numbered item of the recommendations section (the
\* lines after its header up to the next top-level section line) is returned
\* exactly when its text, its prefix stripped, has more than 10 characters (at
\* least 11), in order of appearance; when none is, the four generic suggestions
\* are returned.
C10_KeptWhenLongerThan10 == SuggestionRun => out.value = SuggestionsOfLength(arg, 11)

\* C10 happens: of a 10-character and an 11-character bullet only the latter
\* was returned
C10_Witness ==
    /\ SuggestionRun
    /\ arg = join(<<<<"S","u","g","g","e","s","t","i","o","n","s",":">>, Dash \o Body10, Dash \o Body11>>, "\n")
    /\ out.value = <<Body11>>

\* ---- C11 ----
CleanRun == fn = "clean_text" /\ out.done

\* C11: clean_text is idempotent: for every text, the empty text, texts of
\* whitespace only and texts with removed characters included, cleaning the
\* cleaned text gives the cleaned text again.
C11_CleanTextIdempotent == CleanRun => out.value.twice = out.value.once

\* C11 happens: removing "@" leaves two spaces side by side, the last
\* substitution joins them, and cleaning the result again changes nothing
C11_Witness ==
    /\ CleanRun
    /\ arg = <<"a", "\n", "@", "\t", "a">>
    /\ out.value.once = <<"a", " ", "a">>
    /\ out.value.twice = <<"a", " ", "a">>

\* ---- C12 ----
\* the steps of analyze_resume_vs_jd in the order of its lines: the collection
\* write (process), the query, the generation, the score parsing
StepOrder == <<"idle", "process", "query", "generate", "score", "done">>
StepNumber(stage) == CHOOSE i \in 1..Len(StepOrder) : StepOrder[i] = stage

\* a step of call c goes on to the step that follows, or ends the call
InOrder(c) ==
    \/ pc'[c] # "done" /\ StepNumber(pc'[c]) = StepNumber(pc[c]) + 1
    \/ pc'[c] = "done" /\ pc[c] \in {"idle", "process", "query", "score"}

\* the generative model is reached from the query only, with the chunks the
\* query returned and the call's own chunks written
GenerateAfterWriteAndQuery(c) ==
    pc'[c] = "generate" =>
        /\ pc[c] = "query"
        /\ relevant'[c] # <<>>
        /\ OwnChunks(c) \subseteq Range(Created(coll'))

\* a query that returns no chunk ends the call with score 0 and no chunks
EmptyQueryEndsCall(c) ==
    (pc[c] = "query" /\ pc'[c] = "done" /\ ret'[c].kind = "return") =>
        /\ relevant'[c] = <<>>
        /\ ret'[c] = Result(0, NoRelevantAnalysis, <<>>)
        /\ analysis'[c] = <<>>

\* the model's text exists only once the generation step is over, a call at
\* or past the generation step holds chunks, and a result without chunks has
\* score 0 and no text of the model behind it
GeneratedOnlyWithChunks(c) ==
    /\ analysis[c] # <<>> => pc[c] \in {"score", "done"} /\ relevant[c] # <<>>
    /\ pc[c] \in {"generate", "score"} => op[c] = "analyze" /\ relevant[c] # <<>>
    /\ (Returned(c) /\ ret[c].relevant_chunks = <<>>) =>
           /\ ret[c].score = 0
           /\ analysis[c] = <<>>
           /\ fault[c] # "generation"

\* C12: within one analyze_resume_vs_jd call the steps run in the order
\* collection write, query, generation, score parsing, whatever another
\* session does in between; the generative model is invoked only after the
\* call's own write and query are over and only when the query returned at
\* least one chunk; a query that returns no chunk ends the call with score 0
\* and an empty relevant_chunks list, the generative model never invoked.
C12_StepsInOrder ==
    /\ [](\A c \in Calls : GeneratedOnlyWithChunks(c))
    /\ [][\A c \in Calls :
            (op'[c] = "analyze" /\ pc'[c] # pc[c]) =>
                /\ InOrder(c)
                /\ GenerateAfterWriteAndQuery(c)
                /\ EmptyQueryEndsCall(c)]_vars

\* C12 happens: one call went through write, query, generation and score
\* parsing and returned the parsed score with its chunks, while the other
\* call's query returned nothing and it returned score 0 with no chunks
C12_Witness ==
    \E c \in Calls, d \in Calls :
        /\ Returned(c) /\ fault[c] = "none"
        /\ ret[c] = Result(83, <<"8", "3", "%">>, <<<<"a">>>>)
        /\ Returned(d) /\ fault[d] = "none"
        /\ ret[d] = Result(0, NoRelevantAnalysis, <<>>)

====
